---- MODULE Spec2Model ----
\* LifeOS autonomous builder (autonomous-lifeos-builder.py) and the single-shot
\* wrapper (claude_code_wrapper.py) as state machines.
\*
\* Both programs are single asyncio tasks.  A step of the model runs the code from
\* one await to the next; the awaits are: entering the session scope, query(),
\* every receive_response() item, and the two asyncio.sleep calls of the loop.
\* The agent runtime (create_client, the client object, the response stream) is an
\* external collaborator: every call to it may succeed or raise, and the stream
\* delivers any finite sequence of messages before it ends or raises.
EXTENDS Integers, Sequences, FiniteSets, TLC

\* ---------------------------------------------------------------- bounds
\* largest --max-iterations value drawn in Init
MaxN == 2
\* a run without an effective maximum is followed for this many iterations
MaxIter == 2
\* at most this many response blocks are delivered in one run
MaxEvents == 3
\* largest iteration index a prompt is built for
MaxPromptIter == 4
\* blocks delivered during one run followed for progress
MaxLiveEvents == 1

\* ---------------------------------------------------------------- constants
AUTO_CONTINUE_DELAY == 5
PAUSE_DELAY == 1
\* console truncation of a tool error in run_agent_iteration: [:300]
BuilderErrLimit == 300
\* truncation of a tool_error record in send_message: [:500]
WrapperErrLimit == 500

\* Optional[int]: None is the empty tuple, an int n is <<n>>
None == << >>
Some(n) == << n >>

\* ---------------------------------------------------------------- the stream
\* Text is a sequence of characters; str(e) of an exception likewise.
Texts == { <<"a">>, <<"b">> }
Excs == { <<"E">>, <<"F">> }
\* a tool name is text too; a ToolUseBlock without a name attribute
NoAttr == << "<no attribute>" >>
ToolNames == { << "x" >>, NoAttr }
Contents == { <<"c">> }
\* the content of a failed tool result: one character more than the console shows
LongContent == [i \in 1..(BuilderErrLimit + 1) |-> "c"]
ErrorContents == { LongContent }

\* One content block together with the type name of the message that carries it.
TextBlock(t) == [msg |-> "AssistantMessage", block |-> "TextBlock", val |-> t, is_error |-> FALSE]
ToolUseBlock(n) == [msg |-> "AssistantMessage", block |-> "ToolUseBlock", val |-> n, is_error |-> FALSE]
ToolResultBlock(c, err) == [msg |-> "UserMessage", block |-> "ToolResultBlock", val |-> c, is_error |-> err]

Events ==
    { TextBlock(t) : t \in Texts }
    \cup { ToolUseBlock(n) : n \in ToolNames }
    \cup { ToolResultBlock(c, FALSE) : c \in Contents }
    \cup { ToolResultBlock(c, TRUE) : c \in ErrorContents }

\* s[:n]
Take(s, n) == SubSeq(s, 1, IF Len(s) < n THEN Len(s) ELSE n)

\* "nothing raised" / "e was raised at `where`"
NoRaise == [where |-> "none", exc |-> << >>]
RaisedAt(where, e) == [where |-> where, exc |-> e]

\* getattr(block, "name", "unknown")
ToolNameOf(ev) == IF ev.val = NoAttr THEN << "unknown" >> ELSE ev.val

VARIABLES
    max_iterations,  \* run_continuous_build argument: None or Some(n)
    iteration,       \* run_continuous_build local
    pc,              \* Loop Controller position
    status,          \* run_continuous_build local, "" before the first return
    response,        \* run_continuous_build local
    session_log,     \* the log file: sequence of entries
    sessions,        \* every client create_client has made, with its state
    client,          \* run_agent_iteration local: index into sessions, 0 = unbound
    response_text,   \* run_agent_iteration local
    console,         \* what run_agent_iteration echoed for the current call
    consumed,        \* blocks the current session's stream has delivered
    raised,          \* per call: where it raised ("none" if nowhere) and the exception
    delivered,       \* blocks delivered in the whole run
    calls,           \* iteration indices run_agent_iteration was called with
    outcomes,        \* what each returned call returned
    sleeps,          \* durations of the asyncio.sleep calls made
    summary,         \* the final summary printed, None before it
    write_steps,     \* TRUE: the writes of a log append are followed one by one
    writing,         \* parts of the entry in progress written to the open log file
    torn,            \* parts of an unfinished entry left at the end of the log file
    w_pc,            \* send_message position
    w_session,       \* the wrapper's client: "none", "created", "open", "released"
    w_response_text, \* send_message local response_text
    tool_uses,       \* send_message local
    stdout,          \* JSON records printed by send_message
    exit_code,       \* process exit status, -1 while running
    w_consumed,      \* blocks the wrapper's stream has delivered
    w_raised,        \* where send_message raised ("none" if nowhere) and the exception
    p_pc,            \* position of a call of get_agent_prompt
    agent_type,      \* get_agent_prompt argument
    p_iteration,     \* get_agent_prompt argument `iteration`
    prompt           \* get_agent_prompt local: a text as a sequence of pieces

bvars == << max_iterations, iteration, pc, status, response, session_log, sessions,
            client, response_text, console, consumed, raised, delivered, calls,
            outcomes, sleeps, summary, write_steps, writing, torn >>
wvars == << w_pc, w_session, w_response_text, tool_uses, stdout, exit_code, w_consumed,
            w_raised >>
pvars == << p_pc, agent_type, p_iteration, prompt >>
vars == << bvars, wvars, pvars >>


\* ---------------------------------------------------------------- pure parts
\* an increment that leaves a gap in the indices
NextIteration_Skip(it) == it + 2

\* iteration += 1
NextIteration(it) == it + 1

\* a loop without the test of the maximum
ExceedsMax_Never(max, it) == FALSE

\* the comparison off by one: the last iteration is cut
ExceedsMax_OffByOne(max, it) == max # None /\ max[1] # 0 /\ it >= max[1]

\* "if max_iterations and iteration > max_iterations" (truthiness of Optional[int])
ExceedsMax(max, it) == max # None /\ max[1] # 0 /\ it > max[1]

\* "if max_iterations is None or iteration < max_iterations"
MoreRemain(max, it) == max = None \/ it < max[1]

\* a receive loop that also collects the content of failed tool results
OnBlock_ErrorText(text, ev) ==
    IF ev.msg = "AssistantMessage" /\ ev.block = "TextBlock" THEN text \o ev.val
    ELSE IF ev.block = "ToolResultBlock" /\ ev.is_error THEN text \o ev.val
    ELSE text

\* The body of the receive loop for one block: the new response_text.
OnBlock(text, ev) ==
    IF ev.msg = "AssistantMessage" /\ ev.block = "TextBlock" THEN text \o ev.val ELSE text

\* What the receive loop prints for one block.
EchoBlock(ev) ==
    IF ev.msg = "AssistantMessage" /\ ev.block = "TextBlock"
        THEN << [kind |-> "text", val |-> ev.val] >>
    ELSE IF ev.msg = "AssistantMessage" /\ ev.block = "ToolUseBlock"
        THEN << [kind |-> "tool", val |-> ToolNameOf(ev)] >>
    ELSE IF ev.msg = "UserMessage" /\ ev.block = "ToolResultBlock"
        THEN IF ev.is_error
                THEN << [kind |-> "error", val |-> Take(ev.val, BuilderErrLimit)] >>
                ELSE << [kind |-> "done", val |-> << >>] >>
    ELSE << >>

\* a try block around the session entry only
Caught_EnterOnly(where) == where \in { "enter" }

\* a try block that ends before the receive loop
Caught_NotStream(where) == where \in { "enter", "query" }

\* The try block of run_agent_iteration encloses the session scope, not create_client.
Caught(where) == where \in { "enter", "query", "stream" }

\* a scope exit that does not disconnect
Release_Leak(ss, c) == ss

\* a scope exit that disconnects the first client made, not the current one
Release_First(ss, c) == [ss EXCEPT ![1] = "released"]

\* Leaving "async with client": the client is disconnected.
Release(ss, c) == [ss EXCEPT ![c] = "released"]

\* the log opened in mode "w": the file is truncated on every write
LogAppend_Truncate(log, it, text) == << [iteration |-> it, text |-> text] >>

\* The final summary: print(f"Iterations: {iteration}") with the loop's counter.
Summary(it) == [iterations |-> it]

\* an entry written without f.write(response)
LogAppend_NoText(log, it, text) == Append(log, [iteration |-> it, text |-> << >>])

\* a delay that doubles after an error
DelayFor_Backoff(st) == IF st = "success" THEN AUTO_CONTINUE_DELAY ELSE 2 * AUTO_CONTINUE_DELAY

\* The sleep after an iteration that returned st: both branches sleep the same.
DelayFor(st) == IF st = "success" THEN AUTO_CONTINUE_DELAY ELSE AUTO_CONTINUE_DELAY

\* The five f.write calls of one entry, in order.
EntryParts(it, text) ==
    << [part |-> "separator", val |-> << >>],
       [part |-> "header", val |-> << it >>],
       [part |-> "separator", val |-> << >>],
       [part |-> "text", val |-> text],
       [part |-> "newline", val |-> << >>] >>

\* with open(session_log, "a"): separator, header, separator, response, newline
LogAppend(log, it, text) == Append(log, [iteration |-> it, text |-> text])

\* ---------------------------------------------------------------- prompts
\* A text is a sequence of pieces: literal chunks, placeholder tokens, and the values
\* put in for them.  str.replace(token, value) replaces every occurrence of the token.
LIFEOS_ROOT == "/home/louisdup/Agents/lifeOS"
ECHO_MVP_DIR == "/home/louisdup/Agents/lifeOS/echo-mvp"
MASTRA_BACKEND == "/home/louisdup/Agents/lifeOS/echo-mvp/mastra-backend"
EXPO_APP == "/home/louisdup/Agents/lifeOS/echo-mvp/expo-app"

Placeholders == { "{mastra}", "{expo}", "{root}", "{echo}" }

\* the keys of agent_prompts
Roles == { "database", "backend", "email", "calendar", "memory", "frontend", "orchestrator" }
\* role strings that are no key, one of them spelled like a placeholder
UnknownRoles == { "tester", "{echo}" }

\* text.replace(token, value)
Replace(text, token, value) ==
    [i \in DOMAIN text |-> IF text[i] = token THEN value ELSE text[i]]

\* agent_type.upper()
Upper(r) ==
    CASE r = "database" -> "DATABASE"
      [] r = "backend" -> "BACKEND"
      [] r = "email" -> "EMAIL"
      [] r = "calendar" -> "CALENDAR"
      [] r = "memory" -> "MEMORY"
      [] r = "frontend" -> "FRONTEND"
      [] r = "orchestrator" -> "ORCHESTRATOR"
      [] r = "tester" -> "TESTER"
      [] r = "{echo}" -> "{ECHO}"

\* common_context, an f-string: the values are in it from the start
Header(r, it) ==
    << "# LifeOS Autonomous Build - ", Upper(r), " Agent; Project; Root: ", LIFEOS_ROOT,
       "Backend: ", MASTRA_BACKEND, "Frontend: ", EXPO_APP, "Iteration: ", ToString(it),
       "Your Mission: ... the ", r, " component of lifeOS; Project Context; Your Responsibilities" >>

\* agent_prompts[r]; the second "frontend" entry of the literal replaces the first
Body(r) ==
    CASE r = "database" -> << "database: Neon PostgreSQL Database Setup" >>
      [] r = "email" -> << "email: Files: ", "{mastra}", "/src/agents/email-agent.ts, ", "{mastra}",
                           "/src/tools/gmail-tools.ts" >>
      [] r = "calendar" -> << "calendar: Files: ", "{mastra}", "/src/agents/, ", "{mastra}",
                              "/src/tools/; Reference: ", "{mastra}", "/src/agents/email-agent.ts" >>
      [] r = "memory" -> << "memory: Files: ", "{mastra}", "/src/agents/, database setup" >>
      [] r = "backend" -> << "backend: Files: ", "{mastra}", "/src/index.ts, ", "{mastra}",
                             "/src/api/**, ", "{mastra}", "/package.json" >>
      [] r = "frontend" -> << "frontend (API Integration): Files: ", "{expo}", "/App.js, ", "{expo}",
                              "/app/**, ", "{expo}", "/components/**" >>
      [] r = "orchestrator" -> << "orchestrator: Full Stack Orchestrator - HOSTED ARCHITECTURE" >>

\* a lookup without the default
TemplateFor_NoDefault(r) == IF r \in Roles THEN Body(r) ELSE << >>

\* agent_prompts.get(agent_type, agent_prompts["orchestrator"])
TemplateFor(r) == IF r \in Roles THEN Body(r) ELSE Body("orchestrator")

\* the two replace calls on header + body
SubstituteBody(text) == Replace(Replace(text, "{mastra}", MASTRA_BACKEND), "{expo}", EXPO_APP)

\* the footer literal
Footer ==
    << "Working Style; Important Files: specs: ", "{root}", "/docs/stage-0-spec.md; status: ", "{root}",
       "/IMPLEMENTATION_STATUS.md; progress: ", "{echo}", "/claude-progress.txt; tests: ", "{echo}",
       "/feature_list.json; Commands: cd ", "{mastra}", " && npm run api; cd ", "{expo}",
       " && npx expo start; cd ", "{mastra}", " && npm test; Guidelines; This Iteration; BEGIN YOUR WORK NOW." >>

\* a footer whose {echo} is never replaced
SubstituteFooter_NoEcho(text) ==
    Replace(Replace(Replace(text, "{root}", LIFEOS_ROOT), "{mastra}", MASTRA_BACKEND),
            "{expo}", EXPO_APP)

\* the four replace calls on the footer
SubstituteFooter(text) ==
    Replace(Replace(Replace(Replace(text, "{root}", LIFEOS_ROOT), "{echo}", ECHO_MVP_DIR),
                    "{mastra}", MASTRA_BACKEND), "{expo}", EXPO_APP)

get_agent_prompt(r, it) ==
    SubstituteBody(Header(r, it) \o TemplateFor(r)) \o SubstituteFooter(Footer)

\* no call of get_agent_prompt is followed
PromptOff ==
    /\ p_pc = "off"
    /\ agent_type = "orchestrator"
    /\ p_iteration = 0
    /\ prompt = << >>

\* A call of get_agent_prompt with any role string and iteration index.
PromptInit ==
    /\ p_pc = "ready"
    /\ agent_type \in Roles \cup UnknownRoles
    /\ p_iteration \in 1..MaxPromptIter
    /\ prompt = << >>
    /\ max_iterations = None
    /\ iteration = 0
    /\ pc = "off"
    /\ status = ""
    /\ response = << >>
    /\ session_log = << >>
    /\ sessions = << >>
    /\ client = 0
    /\ response_text = << >>
    /\ console = << >>
    /\ consumed = << >>
    /\ raised = << >>
    /\ delivered = 0
    /\ calls = << >>
    /\ outcomes = << >>
    /\ sleeps = << >>
    /\ summary = None
    /\ write_steps = FALSE
    /\ writing = << >>
    /\ torn = << >>
    /\ w_pc = "off"
    /\ w_session = "none"
    /\ w_response_text = << >>
    /\ tool_uses = << >>
    /\ stdout = << >>
    /\ exit_code = -1
    /\ w_consumed = << >>
    /\ w_raised = NoRaise

\* get_agent_prompt(agent_type, iteration) returns
BuildPrompt ==
    /\ p_pc = "ready"
    /\ prompt' = get_agent_prompt(agent_type, p_iteration)
    /\ p_pc' = "built"
    /\ UNCHANGED << agent_type, p_iteration, bvars, wvars >>

\* the replace calls applied once more to the returned text
Resubstitute ==
    /\ p_pc = "built"
    /\ prompt' = SubstituteFooter(SubstituteBody(prompt))
    /\ p_pc' = "resubstituted"
    /\ UNCHANGED << agent_type, p_iteration, bvars, wvars >>

PromptNext ==
    \/ BuildPrompt
    \/ Resubstitute

SpecPrompt == PromptInit /\ [][PromptNext]_vars

\* ---------------------------------------------------------------- builder
BuilderInit ==
    /\ max_iterations \in { None } \cup { Some(n) : n \in 0..MaxN }
    /\ iteration = 0
    /\ pc = "Idle"
    /\ status = ""
    /\ response = << >>
    /\ session_log = << >>
    /\ sessions = << >>
    /\ client = 0
    /\ response_text = << >>
    /\ console = << >>
    /\ consumed = << >>
    /\ raised = << >>
    /\ delivered = 0
    /\ calls = << >>
    /\ outcomes = << >>
    /\ sleeps = << >>
    /\ summary = None
    /\ write_steps = FALSE
    /\ writing = << >>
    /\ torn = << >>
    /\ w_pc = "off"
    /\ w_session = "none"
    /\ w_response_text = << >>
    /\ tool_uses = << >>
    /\ stdout = << >>
    /\ exit_code = -1
    /\ w_consumed = << >>
    /\ w_raised = NoRaise
    /\ PromptOff

\* run_agent_iteration returns (st, text); the loop logs it and starts the delay.
Return(st, text) ==
    /\ status' = st
    /\ response' = text
    /\ outcomes' = Append(outcomes, [iteration |-> iteration, status |-> st, response |-> text])
    /\ client' = 0
    /\ writing' = << >>
    /\ IF write_steps
          THEN /\ pc' = "Logging"
               /\ UNCHANGED << session_log, sleeps >>
          ELSE /\ session_log' = LogAppend(session_log, iteration, text)
               /\ sleeps' = Append(sleeps, DelayFor(st))
               /\ pc' = "Delaying"

\* An exception leaves run_agent_iteration and, nothing above catching it, the run.
Propagate ==
    /\ pc' = "Crashed"
    /\ client' = 0
    /\ UNCHANGED << status, response, outcomes, session_log, sleeps, writing >>

\* a handler that returns the text received so far together with the message
ErrorResult_KeepPartial(text, e) == text \o e

\* return "error", str(e): the text accumulated in response_text is not used
ErrorResult(text, e) == e

\* An exception e raised at `where` inside run_agent_iteration.
Except(where, e) ==
    IF Caught(where) THEN Return("error", ErrorResult(response_text, e)) ELSE Propagate

\* The session of the current call raises e at `where`.
Raise(where, e) ==
    /\ raised' = [raised EXCEPT ![Len(raised)] = RaisedAt(where, e)]
    /\ Except(where, e)

\* run_continuous_build up to the loop
Start ==
    /\ pc = "Idle"
    /\ pc' = "Running"
    /\ iteration' = 0
    /\ UNCHANGED << max_iterations, write_steps, writing, torn, summary, status, response, session_log, sessions, client,
                    response_text, console, consumed, raised, delivered, calls,
                    outcomes, sleeps, wvars, pvars >>

\* iteration += 1; the maximum is exceeded: break, print the summary, return
LoopTerminate ==
    /\ pc = "Running"
    /\ ExceedsMax(max_iterations, NextIteration(iteration))
    /\ iteration' = NextIteration(iteration)
    /\ summary' = Some(Summary(NextIteration(iteration)))
    /\ pc' = "Terminated"
    /\ UNCHANGED << max_iterations, write_steps, writing, torn, status, response, session_log, sessions, client,
                    response_text, console, consumed, raised, delivered, calls,
                    outcomes, sleeps, wvars, pvars >>

\* iteration += 1; run_agent_iteration is called, create_client returns a client,
\* the prompt is built and the session scope is being entered
CallIteration ==
    /\ pc = "Running"
    /\ ~ExceedsMax(max_iterations, NextIteration(iteration))
    /\ iteration < MaxIter \/ (max_iterations # None /\ iteration < max_iterations[1])
    /\ iteration' = NextIteration(iteration)
    /\ calls' = Append(calls, NextIteration(iteration))
    /\ sessions' = Append(sessions, "created")
    /\ client' = Len(sessions) + 1
    /\ response_text' = << >>
    /\ console' = << >>
    /\ consumed' = << >>
    /\ raised' = Append(raised, NoRaise)
    /\ pc' = "Entering"
    /\ UNCHANGED << max_iterations, write_steps, writing, torn, summary, status, response, session_log, delivered,
                    outcomes, sleeps, wvars, pvars >>

\* iteration += 1; run_agent_iteration is called and create_client raises
CreateClientRaises ==
    /\ pc = "Running"
    /\ ~ExceedsMax(max_iterations, NextIteration(iteration))
    /\ iteration < MaxIter \/ (max_iterations # None /\ iteration < max_iterations[1])
    /\ iteration' = NextIteration(iteration)
    /\ calls' = Append(calls, NextIteration(iteration))
    /\ response_text' = << >>
    /\ console' = << >>
    /\ consumed' = << >>
    /\ \E e \in Excs :
        /\ raised' = Append(raised, RaisedAt("create", e))
        /\ Except("create", e)
    /\ UNCHANGED << max_iterations, write_steps, torn, summary, sessions, delivered, wvars, pvars >>

\* __aenter__ completes: the session is open, query() is awaited
EnterOk ==
    /\ pc = "Entering"
    /\ sessions' = [sessions EXCEPT ![client] = "open"]
    /\ pc' = "Querying"
    /\ UNCHANGED << max_iterations, write_steps, writing, torn, summary, iteration, status, response, session_log, client,
                    response_text, console, consumed, raised, delivered, calls,
                    outcomes, sleeps, wvars, pvars >>

\* __aenter__ raises: no session was opened, __aexit__ is not run
EnterRaises ==
    /\ pc = "Entering"
    /\ \E e \in Excs : Raise("enter", e)
    /\ UNCHANGED << max_iterations, write_steps, torn, summary, iteration, sessions, response_text, console,
                    consumed, delivered, calls, wvars, pvars >>

\* query(prompt) completes; response_text = ""; the first message is awaited
QueryOk ==
    /\ pc = "Querying"
    /\ response_text' = << >>
    /\ pc' = "Streaming"
    /\ UNCHANGED << max_iterations, write_steps, writing, torn, summary, iteration, status, response, session_log, sessions,
                    client, console, consumed, raised, delivered, calls, outcomes,
                    sleeps, wvars, pvars >>

\* query(prompt) raises: the scope is left, then the handler runs
QueryRaises ==
    /\ pc = "Querying"
    /\ sessions' = Release(sessions, client)
    /\ \E e \in Excs : Raise("query", e)
    /\ UNCHANGED << max_iterations, write_steps, torn, summary, iteration, response_text, console, consumed,
                    delivered, calls, wvars, pvars >>

\* receive_response() yields the next block
Receive ==
    /\ pc = "Streaming"
    /\ delivered < MaxEvents
    /\ \E ev \in Events :
        /\ consumed' = Append(consumed, ev)
        /\ response_text' = OnBlock(response_text, ev)
        /\ console' = console \o EchoBlock(ev)
    /\ delivered' = delivered + 1
    /\ UNCHANGED << max_iterations, write_steps, writing, torn, summary, iteration, pc, status, response, session_log,
                    sessions, client, raised, calls, outcomes, sleeps, wvars, pvars >>

\* the stream is exhausted: return "success", response_text
StreamEnd ==
    /\ pc = "Streaming"
    /\ sessions' = Release(sessions, client)
    /\ Return("success", response_text)
    /\ UNCHANGED << max_iterations, write_steps, torn, summary, iteration, response_text, console, consumed,
                    raised, delivered, calls, wvars, pvars >>

\* receive_response() raises
StreamRaises ==
    /\ pc = "Streaming"
    /\ sessions' = Release(sessions, client)
    /\ \E e \in Excs : Raise("stream", e)
    /\ UNCHANGED << max_iterations, write_steps, torn, summary, iteration, response_text, console, consumed,
                    delivered, calls, wvars, pvars >>

\* asyncio.sleep(AUTO_CONTINUE_DELAY) completes; the pause is started or skipped
DelayDone ==
    /\ pc = "Delaying"
    /\ IF MoreRemain(max_iterations, iteration)
          THEN /\ sleeps' = Append(sleeps, PAUSE_DELAY)
               /\ pc' = "Pausing"
          ELSE /\ sleeps' = sleeps
               /\ pc' = "Running"
    /\ UNCHANGED << max_iterations, write_steps, writing, torn, summary, iteration, status, response, session_log, sessions,
                    client, response_text, console, consumed, raised, delivered, calls,
                    outcomes, wvars, pvars >>

\* asyncio.sleep(1) completes
PauseDone ==
    /\ pc = "Pausing"
    /\ pc' = "Running"
    /\ UNCHANGED << max_iterations, write_steps, writing, torn, summary, iteration, status, response, session_log, sessions,
                    client, response_text, console, consumed, raised, delivered, calls,
                    outcomes, sleeps, wvars, pvars >>

\* The task is cancelled at an await (process interruption): CancelledError is not an
\* Exception, so the handler does not run; a scope that was entered is left.
Interrupt ==
    /\ pc \in { "Entering", "Querying", "Streaming", "Delaying", "Pausing" }
    /\ sessions' = IF client # 0 /\ sessions[client] = "open"
                      THEN Release(sessions, client) ELSE sessions
    /\ client' = 0
    /\ pc' = "Interrupted"
    /\ UNCHANGED << max_iterations, write_steps, writing, torn, summary, iteration, status, response, session_log,
                    response_text, console, consumed, raised, delivered, calls,
                    outcomes, sleeps, wvars, pvars >>




\* ---------------------------------------------------------------- progress
\* A run of the builder that nothing interrupts from outside.  The task is the only
\* one of its event loop, so each of its steps is taken once it can be: a sleep
\* ends, a call to the runtime returns or raises, and a response stream ends or
\* raises after finitely many blocks.
\* the stream delivers one more block, within the number of blocks followed here
LiveReceive == delivered < MaxLiveEvents /\ Receive

LiveNext ==
    \/ Start
    \/ LoopTerminate
    \/ CallIteration
    \/ CreateClientRaises
    \/ EnterOk
    \/ EnterRaises
    \/ QueryOk
    \/ QueryRaises
    \/ LiveReceive
    \/ StreamEnd
    \/ StreamRaises
    \/ DelayDone
    \/ PauseDone

Fairness ==
    /\ WF_vars(Start)
    /\ WF_vars(LoopTerminate)
    /\ WF_vars(CallIteration \/ CreateClientRaises)
    /\ WF_vars(EnterOk \/ EnterRaises)
    /\ WF_vars(QueryOk \/ QueryRaises)
    /\ WF_vars(StreamEnd \/ StreamRaises)
    /\ WF_vars(DelayDone)
    /\ WF_vars(PauseDone)

SpecLive == BuilderInit /\ [][LiveNext]_vars /\ Fairness

\* ---------------------------------------------------------------- log writes
\* A run of the builder in which the writes of a log append are separate steps, and
\* the process can be interrupted between them as well as at an await.
WritesInit ==
    /\ max_iterations \in { None } \cup { Some(n) : n \in 0..MaxN }
    /\ iteration = 0
    /\ pc = "Idle"
    /\ status = ""
    /\ response = << >>
    /\ session_log = << >>
    /\ sessions = << >>
    /\ client = 0
    /\ response_text = << >>
    /\ console = << >>
    /\ consumed = << >>
    /\ raised = << >>
    /\ delivered = 0
    /\ calls = << >>
    /\ outcomes = << >>
    /\ sleeps = << >>
    /\ summary = None
    /\ write_steps = TRUE
    /\ writing = << >>
    /\ torn = << >>
    /\ w_pc = "off"
    /\ w_session = "none"
    /\ w_response_text = << >>
    /\ tool_uses = << >>
    /\ stdout = << >>
    /\ exit_code = -1
    /\ w_consumed = << >>
    /\ w_raised = NoRaise
    /\ PromptOff

\* one of the first four f.write calls
LogWrite ==
    /\ pc = "Logging"
    /\ Len(writing) < 4
    /\ writing' = Append(writing, EntryParts(iteration, response)[Len(writing) + 1])
    /\ UNCHANGED << max_iterations, iteration, pc, status, response, session_log, sessions,
                    client, response_text, console, consumed, raised, delivered, calls,
                    outcomes, sleeps, summary, write_steps, torn, wvars, pvars >>

\* the last f.write, the file is closed, the delay starts
LogFinish ==
    /\ pc = "Logging"
    /\ Len(writing) = 4
    /\ Append(writing, EntryParts(iteration, response)[5]) = EntryParts(iteration, response)
    /\ session_log' = LogAppend(session_log, iteration, response)
    /\ writing' = << >>
    /\ sleeps' = Append(sleeps, DelayFor(status))
    /\ pc' = "Delaying"
    /\ UNCHANGED << max_iterations, iteration, status, response, sessions, client,
                    response_text, console, consumed, raised, delivered, calls,
                    outcomes, summary, write_steps, torn, wvars, pvars >>

\* The process is interrupted between two writes.  KeyboardInterrupt leaves the
\* with block, which closes the file and flushes what was written; a kill loses the
\* buffer.
InterruptWrites ==
    /\ pc = "Logging"
    /\ \E flushed \in BOOLEAN : torn' = IF flushed THEN writing ELSE << >>
    /\ writing' = << >>
    /\ pc' = "Interrupted"
    /\ UNCHANGED << max_iterations, iteration, status, response, session_log, sessions,
                    client, response_text, console, consumed, raised, delivered, calls,
                    outcomes, sleeps, summary, write_steps, wvars, pvars >>

WritesNext ==
    \/ Start
    \/ LoopTerminate
    \/ CallIteration
    \/ CreateClientRaises
    \/ EnterOk
    \/ EnterRaises
    \/ QueryOk
    \/ QueryRaises
    \/ Receive
    \/ StreamEnd
    \/ StreamRaises
    \/ DelayDone
    \/ PauseDone
    \/ Interrupt
    \/ LogWrite
    \/ LogFinish
    \/ InterruptWrites

SpecWrites == WritesInit /\ [][WritesNext]_vars

\* ---------------------------------------------------------------- wrapper
\* The records send_message prints, one JSON object per line.
TextRecord(t) == [type |-> "text", content |-> t]
ToolRecord(n) == [type |-> "tool", name |-> n]
ToolErrorRecord(c) == [type |-> "tool_error", content |-> c]
CompleteRecord(t, tools) == [type |-> "complete", response |-> t, tools_used |-> tools]
ErrorRecord(e) == [type |-> "error", error |-> e]

\* a receive loop that also adds the content of tool results to the text
W_OnText_ToolResults(text, ev) ==
    IF ev.block \in { "TextBlock", "ToolResultBlock" } THEN text \o ev.val ELSE text

\* The body of the wrapper's receive loop for one block: the new response_text.
W_OnText(text, ev) ==
    IF ev.msg = "AssistantMessage" /\ ev.block = "TextBlock" THEN text \o ev.val ELSE text

\* a tool list that keeps each name once
W_OnTool_Dedup(tools, ev) ==
    IF ev.msg = "AssistantMessage" /\ ev.block = "ToolUseBlock"
          /\ \A i \in DOMAIN tools : tools[i] # ToolNameOf(ev)
        THEN Append(tools, ToolNameOf(ev)) ELSE tools

\* ... the new tool_uses
W_OnTool(tools, ev) ==
    IF ev.msg = "AssistantMessage" /\ ev.block = "ToolUseBlock"
        THEN Append(tools, ToolNameOf(ev)) ELSE tools

\* ... the records printed
W_Emit(ev) ==
    IF ev.msg = "AssistantMessage" /\ ev.block = "TextBlock"
        THEN << TextRecord(ev.val) >>
    ELSE IF ev.msg = "AssistantMessage" /\ ev.block = "ToolUseBlock"
        THEN << ToolRecord(ToolNameOf(ev)) >>
    ELSE IF ev.msg = "UserMessage" /\ ev.block = "ToolResultBlock" /\ ev.is_error
        THEN << ToolErrorRecord(Take(ev.val, WrapperErrLimit)) >>
    ELSE << >>

\* A run of claude_code_wrapper.py that reaches send_message.
WrapperInit ==
    /\ max_iterations = None
    /\ iteration = 0
    /\ pc = "off"
    /\ status = ""
    /\ response = << >>
    /\ session_log = << >>
    /\ sessions = << >>
    /\ client = 0
    /\ response_text = << >>
    /\ console = << >>
    /\ consumed = << >>
    /\ raised = << >>
    /\ delivered = 0
    /\ calls = << >>
    /\ outcomes = << >>
    /\ sleeps = << >>
    /\ summary = None
    /\ write_steps = FALSE
    /\ writing = << >>
    /\ torn = << >>
    /\ w_pc = "start"
    /\ w_session = "none"
    /\ w_response_text = << >>
    /\ tool_uses = << >>
    /\ stdout = << >>
    /\ exit_code = -1
    /\ w_consumed = << >>
    /\ w_raised = NoRaise
    /\ PromptOff

\* a handler that prints the error record and returns normally
W_Except_NoExit(where, e) ==
    /\ w_raised' = RaisedAt(where, e)
    /\ stdout' = Append(stdout, ErrorRecord(e))
    /\ exit_code' = 0
    /\ w_pc' = "done"

\* except Exception as e: print the error record, sys.exit(1)
W_Except(where, e) ==
    /\ w_raised' = RaisedAt(where, e)
    /\ stdout' = Append(stdout, ErrorRecord(e))
    /\ exit_code' = 1
    /\ w_pc' = "exited"

\* create_client returns; response_text = "", tool_uses = []; the scope is being entered
W_Create ==
    /\ w_pc = "start"
    /\ w_session' = "created"
    /\ w_response_text' = << >>
    /\ tool_uses' = << >>
    /\ w_pc' = "entering"
    /\ UNCHANGED << pvars, bvars, w_raised, stdout, exit_code, w_consumed >>

\* create_client raises, inside the try block
W_CreateRaises ==
    /\ w_pc = "start"
    /\ \E e \in Excs : W_Except("create", e)
    /\ UNCHANGED << pvars, bvars, w_session, w_response_text, tool_uses, w_consumed >>

W_EnterOk ==
    /\ w_pc = "entering"
    /\ w_session' = "open"
    /\ w_pc' = "querying"
    /\ UNCHANGED << pvars, bvars, w_raised, w_response_text, tool_uses, stdout, exit_code, w_consumed >>

W_EnterRaises ==
    /\ w_pc = "entering"
    /\ \E e \in Excs : W_Except("enter", e)
    /\ UNCHANGED << pvars, bvars, w_session, w_response_text, tool_uses, w_consumed >>

W_QueryOk ==
    /\ w_pc = "querying"
    /\ w_pc' = "streaming"
    /\ UNCHANGED << pvars, bvars, w_raised, w_session, w_response_text, tool_uses, stdout, exit_code,
                    w_consumed >>

W_QueryRaises ==
    /\ w_pc = "querying"
    /\ w_session' = "released"
    /\ \E e \in Excs : W_Except("query", e)
    /\ UNCHANGED << pvars, bvars, w_response_text, tool_uses, w_consumed >>

\* receive_response() yields the next block
W_Receive ==
    /\ w_pc = "streaming"
    /\ Len(w_consumed) < MaxEvents
    /\ \E ev \in Events :
        /\ w_consumed' = Append(w_consumed, ev)
        /\ w_response_text' = W_OnText(w_response_text, ev)
        /\ tool_uses' = W_OnTool(tool_uses, ev)
        /\ stdout' = stdout \o W_Emit(ev)
    /\ UNCHANGED << pvars, bvars, w_raised, w_pc, w_session, exit_code >>

\* the stream is exhausted: the scope is left and the completion record printed
W_StreamEnd ==
    /\ w_pc = "streaming"
    /\ w_session' = "released"
    /\ stdout' = Append(stdout, CompleteRecord(w_response_text, tool_uses))
    /\ exit_code' = 0
    /\ w_pc' = "done"
    /\ UNCHANGED << pvars, bvars, w_raised, w_response_text, tool_uses, w_consumed >>

W_StreamRaises ==
    /\ w_pc = "streaming"
    /\ w_session' = "released"
    /\ \E e \in Excs : W_Except("stream", e)
    /\ UNCHANGED << pvars, bvars, w_response_text, tool_uses, w_consumed >>

\* A run of either program.
Init == BuilderInit \/ WrapperInit

Next ==
    \/ Start
    \/ LoopTerminate
    \/ CallIteration
    \/ CreateClientRaises
    \/ EnterOk
    \/ EnterRaises
    \/ QueryOk
    \/ QueryRaises
    \/ Receive
    \/ StreamEnd
    \/ StreamRaises
    \/ DelayDone
    \/ PauseDone
    \/ Interrupt
    \/ W_Create
    \/ W_CreateRaises
    \/ W_EnterOk
    \/ W_EnterRaises
    \/ W_QueryOk
    \/ W_QueryRaises
    \/ W_Receive
    \/ W_StreamEnd
    \/ W_StreamRaises

Spec == Init /\ [][Next]_vars


\* ---------------------------------------------------------------- both programs
\* run_agent_iteration and send_message on the same behaviour of the runtime.
\* run_agent_iteration is called once; what the runtime did during the call is
\* then on record: the blocks in `consumed`, the exception and its place in
\* Last(raised).  send_message is run afterwards against that record.
PairInit ==
    /\ BuilderInit
    /\ max_iterations = Some(1)

\* run_agent_iteration has returned or raised
CallEnded == pc \in { "Delaying", "Crashed" }

\* the runtime's behaviour during the recorded call
Behaviour == raised[Len(raised)]

\* the runtime raises in send_message as it did in the recorded call
SameRaise == w_raised' = Behaviour

\* main() of the wrapper: send_message is started
P_Main ==
    /\ CallEnded
    /\ w_pc = "off"
    /\ w_pc' = "start"
    /\ UNCHANGED << pvars, bvars, w_session, w_response_text, tool_uses, stdout, exit_code,
                    w_consumed, w_raised >>

P_Create == W_Create /\ Behaviour.where # "create"
P_CreateRaises == W_CreateRaises /\ SameRaise
P_EnterOk == W_EnterOk /\ Behaviour.where # "enter"
P_EnterRaises == W_EnterRaises /\ SameRaise
P_QueryOk == W_QueryOk /\ Behaviour.where # "query"
P_QueryRaises == W_QueryRaises /\ SameRaise
P_Receive ==
    /\ W_Receive
    /\ Len(w_consumed) < Len(consumed)
    /\ w_consumed' = SubSeq(consumed, 1, Len(w_consumed) + 1)
P_StreamEnd ==
    /\ W_StreamEnd
    /\ Len(w_consumed) = Len(consumed)
    /\ Behaviour.where = "none"
P_StreamRaises ==
    /\ W_StreamRaises
    /\ Len(w_consumed) = Len(consumed)
    /\ SameRaise

PairNext ==
    \/ Start
    \/ CallIteration
    \/ CreateClientRaises
    \/ EnterOk
    \/ EnterRaises
    \/ QueryOk
    \/ QueryRaises
    \/ Receive
    \/ StreamEnd
    \/ StreamRaises
    \/ P_Main
    \/ P_Create
    \/ P_CreateRaises
    \/ P_EnterOk
    \/ P_EnterRaises
    \/ P_QueryOk
    \/ P_QueryRaises
    \/ P_Receive
    \/ P_StreamEnd
    \/ P_StreamRaises

SpecPair == PairInit /\ [][PairNext]_vars

\* ================================================================ properties
Last(q) == q[Len(q)]

\* a maximum of at least 1 was supplied
BoundedRun == max_iterations # None /\ max_iterations[1] >= 1

C2_RaisingStep ==
    (Len(raised') = Len(raised) /\ raised' # raised /\ Last(raised').where \in { "query", "stream" })
        => /\ status' = "error"
           /\ response' = Last(raised').exc
           /\ Len(session_log') = Len(session_log) + 1
           /\ pc' = "Delaying"

C2_Remain == max_iterations = None \/ iteration < max_iterations[1]

C2_GoesOn ==
    (status = "error" /\ C2_Remain /\ pc' # "Interrupted") =>
        /\ pc = "Delaying" => pc' = "Pausing"
        /\ pc = "Pausing" => pc' = "Running"
        /\ (pc = "Running" /\ pc' # pc) => calls' = Append(calls, iteration + 1)

C2_ErrorContinues == [][C2_RaisingStep /\ C2_GoesOn]_vars

\* the first iteration raised in query(), and the second has been started
C2_Witness ==
    /\ Len(raised) = 2
    /\ raised[1].where = "query"
    /\ outcomes[1].status = "error"
    /\ calls = << 1, 2 >>
    /\ pc = "Entering"

\* ---------------------------------------------------------------- C3
\* C3 as stated: no exception ever propagates out of run_agent_iteration.
C3_NothingPropagates == pc # "Crashed"

\* C3 amended: an exception raised while entering the session scope, submitting the
\* prompt or iterating the responses never propagates, it is returned as
\* (error, str(e)); a call returns success only if nothing raised; an exception of
\* create_client, which runs before the try block, propagates and ends the run.
C3_CaughtInsideScope ==
    /\ pc = "Crashed" => Last(raised).where = "create"
    /\ \A i \in DOMAIN raised :
        /\ raised[i].where = "create" => (i = Len(raised) /\ pc = "Crashed" /\ Len(outcomes) = i - 1)
        /\ (raised[i].where \in { "enter", "query", "stream" }) =>
            /\ i <= Len(outcomes)
            /\ outcomes[i].status = "error"
            /\ outcomes[i].response = raised[i].exc
        /\ (i <= Len(outcomes) /\ raised[i].where = "none") => outcomes[i].status = "success"

\* one iteration raised in the stream and returned an error, a later create_client raised
C3_Witness ==
    /\ pc = "Crashed"
    /\ Len(raised) = 2
    /\ raised[1].where = "stream"
    /\ outcomes[1] = [iteration |-> 1, status |-> "error", response |-> raised[1].exc]
    /\ raised[2].where = "create"


\* ---------------------------------------------------------------- C4
\* C4: in every state the log holds one entry per returned call of the Session
\* Runner, entry i carrying index i and the text of outcome i, whatever its status;
\* a step never changes or drops an entry already written.
C4_OnePerReturn ==
    /\ Len(session_log) = Len(outcomes)
    /\ \A i \in DOMAIN session_log :
        /\ session_log[i].iteration = i
        /\ outcomes[i].iteration = i
        /\ session_log[i].text = outcomes[i].response

C4_AppendOnly ==
    /\ Len(session_log') >= Len(session_log)
    /\ \A i \in DOMAIN session_log : session_log'[i] = session_log[i]

C4_LogInOrder == [](C4_OnePerReturn) /\ [][C4_AppendOnly]_vars

\* two entries: the first of a failed iteration, the second of a successful one
C4_Witness ==
    /\ Len(session_log) = 2
    /\ outcomes[1].status = "error"
    /\ outcomes[2].status = "success"
    /\ session_log[1].text \in Excs
    /\ session_log[2].text = << "a" >>

\* ---------------------------------------------------------------- C5
\* C5: at most one session is open at any moment; inside run_agent_iteration the
\* client is the one made for this call, the latest; a client is made only when no
\* earlier session is open and the earlier call has returned.
OpenSessions == { i \in DOMAIN sessions : sessions[i] = "open" }

C5_AtMostOne ==
    /\ Cardinality(OpenSessions) <= 1
    /\ Len(sessions) <= Len(calls)
    /\ pc \in { "Entering", "Querying", "Streaming" } =>
        /\ client = Len(sessions)
        /\ client = Len(calls)
        /\ OpenSessions \subseteq { client }

C5_CreatedAfterRelease ==
    Len(sessions') > Len(sessions) =>
        /\ OpenSessions = { }
        /\ Len(outcomes) = Len(sessions)
        /\ sessions' = Append(sessions, "created")

C5_OneSessionAtATime == [](C5_AtMostOne) /\ [][C5_CreatedAfterRelease]_vars

\* the second iteration's session is open, the first one's was released
C5_Witness ==
    /\ Len(sessions) = 2
    /\ sessions[1] = "released"
    /\ sessions[2] = "open"
    /\ consumed # << >>

\* ---------------------------------------------------------------- C6
\* C6: whenever control is outside run_agent_iteration - it returned, or it was
\* abandoned by cancellation - no session is open: every session that was opened has
\* been released, whether the stream ended, query() raised, the stream raised, or
\* the task was cancelled while streaming.
C6_ReleasedOnExit ==
    /\ pc \notin { "Entering", "Querying", "Streaming" } => OpenSessions = { }
    /\ \A i \in DOMAIN raised :
        (raised[i].where \in { "query", "stream" } \/ i <= Len(outcomes))
            => sessions[i] \in { "released", "created" }
    /\ \A i \in DOMAIN outcomes :
        (outcomes[i].status = "success" \/ raised[i].where \in { "query", "stream" })
            => sessions[i] = "released"

\* the task was cancelled in the middle of the second iteration's stream
C6_Witness ==
    /\ pc = "Interrupted"
    /\ Len(sessions) = 2
    /\ sessions[2] = "released"
    /\ Len(outcomes) = 1
    /\ consumed # << >>

\* ---------------------------------------------------------------- C7
\* C7: a call returns success exactly when its session did not raise; receiving a
\* ToolResult with is_error = true leaves response_text and the loop position as
\* they are.
C7_StatusIsRaise ==
    \A i \in DOMAIN outcomes :
        /\ outcomes[i].status = "success" <=> raised[i].where = "none"
        /\ outcomes[i].status \in { "success", "error" }

C7_ToolErrorStep ==
    (Len(consumed') = Len(consumed) + 1
        /\ Last(consumed').block = "ToolResultBlock" /\ Last(consumed').is_error)
        => /\ response_text' = response_text
           /\ pc' = "Streaming"
           /\ outcomes' = outcomes

C7_ToolErrorsIgnored == [](C7_StatusIsRaise) /\ [][C7_ToolErrorStep]_vars

\* a stream of text, two failed tool results, and its end: success, text "a"
C7_Witness ==
    /\ pc = "Delaying"
    /\ status = "success"
    /\ response = << "a" >>
    /\ Cardinality({ i \in DOMAIN consumed : consumed[i].is_error }) = 2


\* ---------------------------------------------------------------- C8
IsTextFragment(ev) == ev.msg = "AssistantMessage" /\ ev.block = "TextBlock"
IsToolInvocation(ev) == ev.msg = "AssistantMessage" /\ ev.block = "ToolUseBlock"

RECURSIVE AggText(_)
\* the TextFragment contents of a sequence of events, concatenated in arrival order
AggText(evs) ==
    IF evs = << >> THEN << >>
    ELSE (IF IsTextFragment(Head(evs)) THEN Head(evs).val ELSE << >>) \o AggText(Tail(evs))

RECURSIVE AggTools(_)
\* the ToolInvocation names of a sequence of events, in arrival order, duplicates kept
AggTools(evs) ==
    IF evs = << >> THEN << >>
    ELSE (IF IsToolInvocation(Head(evs)) THEN << ToolNameOf(Head(evs)) >> ELSE << >>)
            \o AggTools(Tail(evs))

RECURSIVE ConsoleTools(_)
\* the tool names echoed on the console, in order
ConsoleTools(con) ==
    IF con = << >> THEN << >>
    ELSE (IF Head(con).kind = "tool" THEN << Head(con).val >> ELSE << >>)
            \o ConsoleTools(Tail(con))

\* the tool list of an outcome; an outcome without one lists nothing
OutcomeTools(o) == IF "tools" \in DOMAIN o THEN o.tools ELSE << >>

\* C8 as stated: both the outcome returned by run_agent_iteration and the complete
\* record of send_message carry the concatenated text and the list of tool names.
C8_FoldBoth ==
    /\ (pc = "Delaying" /\ status = "success") =>
        /\ Last(outcomes).response = AggText(consumed)
        /\ OutcomeTools(Last(outcomes)) = AggTools(consumed)
    /\ w_pc = "done" =>
        /\ Last(stdout).response = AggText(w_consumed)
        /\ Last(stdout).tools_used = AggTools(w_consumed)

\* C8 amended: the text of both outcomes is the concatenation of the TextFragment
\* contents in arrival order; the list of tool names, in arrival order with
\* duplicates kept, is part of send_message's complete record only: what
\* run_agent_iteration returns is (status, text) without a tool list, the names
\* being echoed to the console in arrival order.
C8_FoldTextAndWrapperTools ==
    /\ pc = "Streaming" => response_text = AggText(consumed)
    /\ (pc = "Delaying" /\ status = "success") =>
        /\ Last(outcomes).response = AggText(consumed)
        /\ response = AggText(consumed)
        /\ "tools" \notin DOMAIN Last(outcomes)
        /\ ConsoleTools(console) = AggTools(consumed)
    /\ w_pc = "streaming" =>
        /\ w_response_text = AggText(w_consumed)
        /\ tool_uses = AggTools(w_consumed)
    /\ w_pc = "done" =>
        Last(stdout) = CompleteRecord(AggText(w_consumed), AggTools(w_consumed))

\* the wrapper has folded [Text a, Tool x, Text b] into text "ab" and tools [x]
C8_Witness ==
    /\ w_pc = "done"
    /\ w_consumed = << TextBlock(<< "a" >>), ToolUseBlock(<< "x" >>), TextBlock(<< "b" >>) >>
    /\ Last(stdout).response = << "a", "b" >>
    /\ Last(stdout).tools_used = << << "x" >> >>

\* ---------------------------------------------------------------- C9
TerminalRecords == { i \in DOMAIN stdout : stdout[i].type \in { "complete", "error" } }

\* C9: send_message prints at most one terminal record and nothing after it; while
\* it runs it has printed none; it ends either with a complete record, exit status 0
\* and nothing raised, or with the error record of the exception raised and a
\* non-zero exit status.
C9_OneTerminalRecord ==
    /\ Cardinality(TerminalRecords) <= 1
    /\ TerminalRecords \subseteq { Len(stdout) }
    /\ w_pc \in { "start", "entering", "querying", "streaming" } =>
        /\ TerminalRecords = { }
        /\ exit_code = -1
    /\ w_pc = "done" =>
        /\ TerminalRecords = { Len(stdout) }
        /\ Last(stdout).type = "complete"
        /\ w_raised.where = "none"
        /\ w_session = "released"
        /\ exit_code = 0
    /\ w_pc = "exited" =>
        /\ TerminalRecords = { Len(stdout) }
        /\ Last(stdout) = ErrorRecord(w_raised.exc)
        /\ w_raised.where \in { "create", "enter", "query", "stream" }
        /\ exit_code \notin { -1, 0 }
    /\ w_raised.where # "none" => w_pc = "exited"

\* the stream raised after a text and a tool record: the error record comes third
C9_Witness ==
    /\ w_pc = "exited"
    /\ w_raised.where = "stream"
    /\ Len(stdout) = 3
    /\ stdout[1].type = "text"
    /\ stdout[2].type = "tool"
    /\ stdout[3].type = "error"

\* ---------------------------------------------------------------- C10
\* C10: for every supplied maximum N >= 0, N = 0 included, at most N iterations
\* are performed.
C10_AtMostN ==
    (pc # "off" /\ max_iterations # None) => Len(calls) <= max_iterations[1]


\* ---------------------------------------------------------------- C11
\* C11: at Terminated the iteration count of the summary is the number of iterations
\* completed: the number of Session Runner calls made and of log entries written.
C11_SummaryCountsIterations ==
    pc = "Terminated" =>
        /\ summary # None
        /\ summary[1].iterations = Len(calls)
        /\ summary[1].iterations = Len(session_log)


\* ---------------------------------------------------------------- C12
IsToolError(ev) == ev.msg = "UserMessage" /\ ev.block = "ToolResultBlock" /\ ev.is_error

\* `part` occurs in `text` as a contiguous piece
Contains(text, part) ==
    \E k \in 0..(Len(text) - Len(part)) : SubSeq(text, k + 1, k + Len(part)) = part

\* C12 as stated: the entry of the iteration that just returned holds the message of
\* the exception raised, if any, and the full content of every failed tool result.
C12_AllErrorsInLog ==
    pc = "Delaying" =>
        /\ Last(raised).where # "none" => Last(session_log).text = Last(raised).exc
        /\ \A i \in DOMAIN consumed :
            IsToolError(consumed[i]) => Contains(Last(session_log).text, consumed[i].val)

\* C12 amended: the message of an exception raised by the session is the text of
\* that iteration's log entry, in full; the content of a failed tool result is not
\* written to the log at all, it is only echoed on the console, cut to 300 characters.
C12_ExceptionInLogToolErrorOnConsole ==
    /\ \A i \in DOMAIN session_log :
        raised[i].where # "none" =>
            /\ session_log[i].text = raised[i].exc
            /\ Len(session_log[i].text) = Len(raised[i].exc)
    /\ pc = "Delaying" =>
        \A i \in DOMAIN consumed :
            IsToolError(consumed[i]) =>
                /\ ~Contains(Last(session_log).text, consumed[i].val)
                /\ \E j \in DOMAIN console :
                    /\ console[j].kind = "error"
                    /\ console[j].val = Take(consumed[i].val, BuilderErrLimit)
                    /\ Len(console[j].val) < Len(consumed[i].val)

\* a tool result failed, then the stream raised: the entry holds the exception only
C12_Witness ==
    /\ pc = "Delaying"
    /\ Last(raised).where = "stream"
    /\ Last(session_log).text = Last(raised).exc
    /\ \E i \in DOMAIN consumed : IsToolError(consumed[i])


\* ---------------------------------------------------------------- C13
\* C13: whenever the run is interrupted, the log consists of whole entries only, one
\* for every iteration that completed before the interruption; no partial entry is
\* ever in the file.
C13_WholeEntriesOnly ==
    /\ torn = << >>
    /\ pc = "Interrupted" => Len(session_log) = Len(outcomes)


\* ---------------------------------------------------------------- C14
PiecesOf(text) == { text[i] : i \in DOMAIN text }

\* C14: for a recognized role and an iteration index >= 1 the text returned holds no
\* placeholder token and holds the iteration number; substituting again changes
\* nothing.
C14_Resolved ==
    (p_pc \in { "built", "resubstituted" } /\ agent_type \in Roles) =>
        /\ PiecesOf(prompt) \cap Placeholders = { }
        /\ ToString(p_iteration) \in PiecesOf(prompt)
        /\ Len(prompt) = Len(Header(agent_type, p_iteration)) + Len(Body(agent_type)) + Len(Footer)

C14_ResubstituteStep == (p_pc = "built" /\ agent_type \in Roles) => prompt' = prompt

C14_NoPlaceholders == [](C14_Resolved) /\ [][C14_ResubstituteStep]_vars

\* the calendar prompt of iteration 2 after a second substitution
C14_Witness ==
    /\ p_pc = "resubstituted"
    /\ agent_type = "calendar"
    /\ p_iteration = 2
    /\ MASTRA_BACKEND \in PiecesOf(prompt)
    /\ ECHO_MVP_DIR \in PiecesOf(prompt)

\* ---------------------------------------------------------------- C15
\* C15: for a role string that is no key of the table a prompt is returned, and what
\* follows its header is what follows the header of the orchestrator prompt: the
\* orchestrator body and the footer.
AfterHeader(text, r, it) == SubSeq(text, Len(Header(r, it)) + 1, Len(text))

C15_FallsBackToOrchestrator ==
    (p_pc = "built" /\ agent_type \notin Roles) =>
        /\ SubSeq(prompt, 1, Len(Header(agent_type, p_iteration)))
              = SubstituteBody(Header(agent_type, p_iteration))
        /\ AfterHeader(prompt, agent_type, p_iteration)
              = AfterHeader(get_agent_prompt("orchestrator", p_iteration), "orchestrator", p_iteration)
        /\ Body("orchestrator")[1] \in PiecesOf(prompt)

\* the prompt of the unknown role "tester" has been built
C15_Witness ==
    /\ p_pc = "built"
    /\ agent_type = "tester"
    /\ "TESTER" \in PiecesOf(prompt)
    /\ Body("orchestrator")[1] \in PiecesOf(prompt)


\* ---------------------------------------------------------------- C16
Delays == { i \in DOMAIN sleeps : sleeps[i] = AUTO_CONTINUE_DELAY }

\* C16: every sleep is the fixed delay or the pause; there is one delay of
\* AUTO_CONTINUE_DELAY per returned iteration, started in the step the iteration
\* returns in, whatever its status, also after the last iteration before Terminated.
C16_DelayPerIteration ==
    pc # "off" =>
        /\ \A i \in DOMAIN sleeps : sleeps[i] \in { AUTO_CONTINUE_DELAY, PAUSE_DELAY }
        /\ Cardinality(Delays) = Len(outcomes)
        /\ (pc = "Terminated" /\ outcomes # << >>) => Last(sleeps) = AUTO_CONTINUE_DELAY

C16_ReturnStep ==
    Len(outcomes') = Len(outcomes) + 1 =>
        /\ sleeps' = Append(sleeps, AUTO_CONTINUE_DELAY)
        /\ pc' = "Delaying"

C16_FixedDelay == [](C16_DelayPerIteration) /\ [][C16_ReturnStep]_vars

\* two failed iterations in a row, each followed by the same delay, then Terminated
C16_Witness ==
    /\ pc = "Terminated"
    /\ Len(outcomes) = 2
    /\ outcomes[1].status = "error"
    /\ outcomes[2].status = "error"
    /\ sleeps = << AUTO_CONTINUE_DELAY, PAUSE_DELAY, AUTO_CONTINUE_DELAY >>


\* ---------------------------------------------------------------- C17
Pauses == { i \in DOMAIN sleeps : sleeps[i] = PAUSE_DELAY }

\* C17: the pause is slept exactly before the iterations that follow another one:
\* a call with an index above 1 comes straight after a pause, there are as many
\* pauses as calls after the first, and no pause follows the final iteration.
C17_PauseIffNextIteration ==
    pc # "off" =>
        /\ (Len(calls) >= 2 /\ Len(calls) > Len(outcomes)) =>
            /\ Last(sleeps) = PAUSE_DELAY
            /\ Cardinality(Pauses) = Len(calls) - 1
        /\ (pc = "Terminated" /\ sleeps # << >>) => Last(sleeps) = AUTO_CONTINUE_DELAY


\* ---------------------------------------------------------------- C18
\* C18 as stated: with a maximum N >= 1 and every stream ending, the run eventually
\* reaches Terminated; with no maximum it never does, and every iteration index
\* (up to the bound followed) is eventually performed.
C18_EventuallyTerminated ==
    /\ BoundedRun ~> (pc = "Terminated")
    /\ [](max_iterations = None => pc # "Terminated")
    /\ (max_iterations = None) ~> (Len(calls) = MaxIter)

\* C18 amended: ... the run eventually reaches Terminated and returns normally, or
\* a call of create_client raises and the run ends with that exception instead;
\* with no maximum it never reaches Terminated, and every iteration index is
\* eventually performed unless create_client raises before.
C18_TerminatedOrCreateFailed ==
    /\ BoundedRun ~> (pc = "Terminated" \/ pc = "Crashed")
    /\ [](pc = "Crashed" => Last(raised).where = "create")
    /\ [](pc = "Terminated" => (BoundedRun /\ summary # None /\ Len(outcomes) = max_iterations[1]))
    /\ [](max_iterations = None => pc # "Terminated")
    /\ (max_iterations = None) ~> (Len(calls) = MaxIter \/ pc = "Crashed")

\* a run with maximum 2 has returned normally after two successful iterations
C18_Witness ==
    /\ pc = "Terminated"
    /\ summary # None
    /\ max_iterations = Some(2)
    /\ Len(outcomes) = 2
    /\ outcomes[1].status = "success"
    /\ outcomes[2].status = "success"


\* ---------------------------------------------------------------- C19
\* The indices of the calls, of the outcomes and of the log headers are 1, 2, 3, ...
C19_Consecutive ==
    pc # "off" =>
        /\ \A i \in DOMAIN calls : calls[i] = i
        /\ \A i \in DOMAIN outcomes : outcomes[i].iteration = i
        /\ \A i \in DOMAIN session_log : session_log[i].iteration = i
        /\ pc \notin {"Idle", "Terminated"} => iteration = Len(calls)
        /\ pc = "Terminated" => iteration = Len(calls) + 1
        /\ (pc = "Terminated" /\ BoundedRun) => Len(outcomes) = max_iterations[1]

\* The counter changes only in a Running step, which adds exactly 1; a new index is
\* passed on whatever the status of the iteration before it.
C19_CounterStep ==
    /\ iteration' # iteration => (pc = "Running" /\ iteration' = iteration + 1)
    /\ (pc = "Running" /\ pc' # "Running") => iteration' = iteration + 1
    /\ calls' # calls => calls' = Append(calls, Len(calls) + 1)

\* C19: the iteration counter increases by exactly 1 per Running step and is never
\* reset or reused: the indices passed to run_agent_iteration and written in the log
\* headers are 1, 2, 3, ... without gaps or repeats; an iteration that ended in
\* error is not retried under its index and counts toward the maximum.
C19_IndicesWithoutGaps == [](C19_Consecutive) /\ [][C19_CounterStep]_vars

\* iteration 1 ended in error, iteration 2 was called under the next index, and the
\* run of at most two iterations has ended
C19_Witness ==
    /\ pc = "Terminated"
    /\ max_iterations = Some(2)
    /\ calls = << 1, 2 >>
    /\ outcomes[1].status = "error"
    /\ outcomes[2].iteration = 2
    /\ session_log[2].iteration = 2


\* ---------------------------------------------------------------- C20
\* C20: when the response stream raises after text blocks were consumed, the outcome
\* returned is ("error", str(e)) only: the text accumulated before the failure is
\* in neither the outcome nor the log entry of that iteration, whose text is just
\* the message of the exception.
C20_PartialTextDropped ==
    (pc = "Delaying" /\ Last(raised).where = "stream") =>
        /\ Last(outcomes) = [iteration |-> iteration, status |-> "error",
                             response |-> Last(raised).exc]
        /\ Last(session_log) = [iteration |-> iteration, text |-> Last(raised).exc]
        /\ response = Last(raised).exc
        /\ response_text # << >> =>
            /\ ~Contains(Last(outcomes).response, response_text)
            /\ ~Contains(Last(session_log).text, response_text)

\* the stream raised after the texts "a" and "b" were received
C20_Witness ==
    /\ pc = "Delaying"
    /\ Last(raised).where = "stream"
    /\ response_text = << "a", "b" >>
    /\ Last(outcomes).status = "error"
    /\ Last(session_log).text \in Excs


\* ---------------------------------------------------------------- C21
\* send_message has ended
W_Ended == w_pc \in { "done", "exited" }

\* run_agent_iteration returned (st, ...)
Returned(st) == Len(outcomes) = 1 /\ outcomes[1].status = st

\* send_message ends with a record of type `ty` exactly when run_agent_iteration
\* returns status `st`, and the field of the record equals the text returned
C21_Same ==
    /\ (Last(stdout).type = "complete") <=> Returned("success")
    /\ Last(stdout).type = "complete" => Last(stdout).response = outcomes[1].response
    /\ (Last(stdout).type = "error") <=> Returned("error")
    /\ Last(stdout).type = "error" => Last(stdout).error = outcomes[1].response

\* C21 as stated: on the same behaviour of the runtime (result of create_client, of
\* query, the stream), send_message ends with a complete record exactly when
\* run_agent_iteration returns success, with the same text, and with an error record
\* exactly when run_agent_iteration returns an error outcome, with the same message.
C21_SameOutcome == W_Ended => C21_Same

\* C21 amended: ... on the same behaviour of the runtime in which create_client
\* returns a client, send_message ends with a complete record exactly when
\* run_agent_iteration returns success, with the same aggregated text, and with an
\* error record exactly when it returns an error outcome, with the same message;
\* when create_client raises, send_message ends with an error record holding the
\* message and exit status 1, while run_agent_iteration returns no outcome: the
\* exception leaves it.
C21_SameOutcomeOnceCreated ==
    W_Ended =>
        /\ Behaviour.where # "create" => C21_Same
        /\ Behaviour.where = "create" =>
            /\ Last(stdout) = ErrorRecord(Behaviour.exc)
            /\ exit_code = 1
            /\ outcomes = << >>
            /\ pc = "Crashed"

\* both programs received "a", a tool use and "b", and the stream then raised
C21_Witness ==
    /\ W_Ended
    /\ Len(w_consumed) = 3
    /\ w_consumed = consumed
    /\ w_response_text = << "a", "b" >>
    /\ tool_uses # << >>
    /\ Behaviour.where = "stream"
    /\ Last(stdout).type = "error"
    /\ Returned("error")

====
